---- MODULE Spec2Model ----
(***************************************************************************)
(* Model of inventory-object (src/index.js): one InventoryObject entry,    *)
(* its constructor, parseData and setProperty, and the pure helpers they   *)
(* call.                                                                   *)
(*                                                                         *)
(* JavaScript strings are sequences of one-character strings.  Other       *)
(* JavaScript values are tagged records [t |-> typeof, v |-> payload]:    *)
(* Str, Num, Arr (of strings), Obj (a sequence of <<key, value>> pairs in  *)
(* enumeration order) and Undefined.                                       *)
(***************************************************************************)
EXTENDS Integers, Sequences, FiniteSets, TLC

VARIABLES
    this,          \* the entry (an InventoryObject)
    born,          \* the entry as the constructor left it
    pre,           \* the entry before the latest call
    call,          \* the latest call and its arguments
    ret,           \* how the latest call ended
    calls,         \* number of calls made on the entry
    lastCommit,    \* arguments of the latest parseData call that set the properties
    lastCategory,  \* category option of the latest processed block that had one
    lastGroup,     \* group option of the latest processed block that had one
    wrapIn,        \* argument of formalizeWrap
    wrapOut,       \* its result
    pairIn,        \* two raw blocks and the options they are parsed with
    pairOut,       \* the results of parseData on two fresh entries
    optIn,         \* the annotation given to getBlockOptions, as written
    optOut,        \* its result
    serIn,         \* the options given to optionsToDataString
    serOut         \* its result

vars == <<this, born, pre, call, ret, calls, lastCommit, lastCategory, lastGroup,
          wrapIn, wrapOut, pairIn, pairOut, optIn, optOut, serIn, serOut>>

entryVars == <<this, born, pre, call, ret, calls, lastCommit, lastCategory, lastGroup>>
wrapVars == <<wrapIn, wrapOut>>
pairVars == <<pairIn, pairOut>>
optVars == <<optIn, optOut>>
serVars == <<serIn, serOut>>

----------------------------------------------------------------------------
(* JavaScript values *)

Str(s) == [t |-> "string", v |-> s]
Num(n) == [t |-> "number", v |-> n]
Arr(a) == [t |-> "array", v |-> a]
Obj(o) == [t |-> "object", v |-> o]
Undefined == [t |-> "undefined", v |-> 0]

\* own enumerable keys of an object, in enumeration order
Keys(o) == [i \in 1..Len(o) |-> o[i][1]]
HasKey(o, k) == \E i \in 1..Len(o) : o[i][1] = k
Get(o, k) == IF HasKey(o, k) THEN o[CHOOSE i \in 1..Len(o) : o[i][1] = k][2] ELSE Undefined
\* o[k] = val : an existing key keeps its place, a new key is appended
Put(o, k, val) ==
    IF HasKey(o, k)
    THEN [i \in 1..Len(o) |-> IF o[i][1] = k THEN <<k, val>> ELSE o[i]]
    ELSE Append(o, <<k, val>>)
\* Object.assign({}, a, b)
RECURSIVE Assign(_, _)
Assign(a, b) == IF b = <<>> THEN a ELSE Assign(Put(a, b[1][1], b[1][2]), Tail(b))

----------------------------------------------------------------------------
(* Characters and strings *)

EOL == <<"\n">>

Whitespace == {" ", "\t", "\n", "\r", "\f"}
WordChars == {"a","b","c","d","e","f","g","h","i","j","k","l","m","n","o","p",
              "q","r","s","t","u","v","w","x","y","z",
              "A","B","C","D","E","F","G","H","I","J","K","L","M","N","O","P",
              "Q","R","S","T","U","V","W","X","Y","Z",
              "0","1","2","3","4","5","6","7","8","9","_"}
LowerOf == [A |-> "a", B |-> "b", C |-> "c", D |-> "d", E |-> "e", F |-> "f",
            G |-> "g", H |-> "h", I |-> "i", J |-> "j", K |-> "k", L |-> "l",
            M |-> "m", N |-> "n", O |-> "o", P |-> "p", Q |-> "q", R |-> "r",
            S |-> "s", T |-> "t", U |-> "u", V |-> "v", W |-> "w", X |-> "x",
            Y |-> "y", Z |-> "z"]
Lower(c) == IF c \in DOMAIN LowerOf THEN LowerOf[c] ELSE c
LowerStr(s) == [i \in 1..Len(s) |-> Lower(s[i])]

IsSpace(c) == c \in Whitespace
IsWord(c) == c \in WordChars

SetMin(S) == CHOOSE m \in S : \A n \in S : m <= n

\* s.substr(n): the string without its first n characters
Drop(s, n) == IF n >= Len(s) THEN <<>> ELSE SubSeq(s, n + 1, Len(s))

\* pat occurs in s at (1-based) position p
At(s, p, pat) == p >= 1 /\ p + Len(pat) - 1 <= Len(s) /\ SubSeq(s, p, p + Len(pat) - 1) = pat
AtNoCase(s, p, pat) == p >= 1 /\ p + Len(pat) - 1 <= Len(s)
                       /\ LowerStr(SubSeq(s, p, p + Len(pat) - 1)) = pat

\* position of the first occurrence of pat in s at or after from, 0 if none
IndexOf(s, pat, from) ==
    LET I == {i \in from..(Len(s) - Len(pat) + 1) : At(s, i, pat)}
    IN IF I = {} THEN 0 ELSE SetMin(I)

\* number of leading whitespace characters: line.match(/^\s*/)[0].length
LeadingSpace(s) ==
    LET I == {i \in 1..Len(s) : ~IsSpace(s[i])}
    IN IF I = {} THEN Len(s) ELSE SetMin(I) - 1

\* end (exclusive) of the run of whitespace starting at p
SpaceEnd(s, p) == p + LeadingSpace(Drop(s, p - 1))

\* _.trimEnd(s): without trailing whitespace
trimEnd(s) ==
    LET I == {i \in 1..Len(s) : ~IsSpace(s[i])}
    IN IF I = {} THEN <<>> ELSE SubSeq(s, 1, CHOOSE m \in I : \A n \in I : n <= m)

\* _.trimStart(s, chars): without the leading characters that are in chars
trimStart(s, chars) ==
    LET I == {i \in 1..Len(s) : s[i] \notin chars}
    IN IF I = {} THEN <<>> ELSE SubSeq(s, SetMin(I), Len(s))

\* s.replace(/\s+/g, '')
StripWhitespace(s) == SelectSeq(s, LAMBDA c : ~IsSpace(c))

\* a.join(sep)
RECURSIVE Join(_, _)
Join(a, sep) ==
    IF a = <<>> THEN <<>>
    ELSE IF Len(a) = 1 THEN a[1]
    ELSE a[1] \o sep \o Join(Tail(a), sep)

\* s.split(c) for a one-character separator c
RECURSIVE Split(_, _)
Split(s, c) ==
    LET I == {i \in 1..Len(s) : s[i] = c}
    IN IF I = {} THEN <<s>>
       ELSE <<SubSeq(s, 1, SetMin(I) - 1)>> \o Split(Drop(s, SetMin(I)), c)

\* s.replace(pat, repl) for a string pattern: the first occurrence only
\* (the replacement strings of the model hold no `$`)
ReplaceFirst(s, pat, repl) ==
    LET i == IndexOf(s, pat, 1)
    IN IF i = 0 THEN s
       ELSE SubSeq(s, 1, i - 1) \o repl \o Drop(s, i + Len(pat) - 1)

----------------------------------------------------------------------------
(* Pure helpers of src/index.js *)

\* line.replace(/\t/, indent || ''): the first tab only
properIndentation(line, indent) == ReplaceFirst(line, <<"\t">>, indent)

\* faulty variant: an empty line counts as zero leading whitespace
countWhitespaceOfEmptyZero(line) == LeadingSpace(line)

\* leading whitespace of a line, 9999 for an empty line
countWhitespace(line) == IF Len(line) > 0 THEN LeadingSpace(line) ELSE 9999

getLeadingWhitespace(previous, current) == IF previous <= current THEN previous ELSE current

\* a.reduce(getLeadingWhitespace) of a non-empty array: a left fold
RECURSIVE reduceLeadingWhitespace(_, _)
reduceLeadingWhitespace(acc, a) ==
    IF a = <<>> THEN acc
    ELSE reduceLeadingWhitespace(getLeadingWhitespace(acc, Head(a)), Tail(a))

\* offset = offset || '    '
raiseIndent(lines, offset) ==
    LET off == IF offset.t = "string" /\ offset.v # <<>> THEN offset.v ELSE <<" "," "," "," ">>
    IN [i \in 1..Len(lines) |-> off \o lines[i]]

trimLines(lines, num) == [i \in 1..Len(lines) |-> Drop(lines[i], num)]

\* sha1 digest of value as a string.  The digest is an uninterpreted injective
\* function of its input (the marker character stands for the hashing), so
\* two identifiers are equal in the model only if the hashed texts are equal.
createId(value) == Str(<<"#">> \o value)

Truthy(x) == CASE x.t = "undefined" -> FALSE
               [] x.t = "string" -> x.v # <<>>
               [] x.t = "number" -> x.v # 0
               [] OTHER -> TRUE

EmptyWrap == Obj(<< <<<<"b","e","f","o","r","e">>, Str(<<>>)>>, <<<<"a","f","t","e","r">>, Str(<<>>)>> >>)
WrapPair(b, a) == Obj(<< <<<<"b","e","f","o","r","e">>, b>>, <<<<"a","f","t","e","r">>, a>> >>)

\* the for-in loop of formalizeWrap: result.before after visiting o[idx..]
RECURSIVE formalizeWrapLoop(_, _, _, _)
formalizeWrapLoop(o, idx, i, before) ==
    IF idx > Len(o) THEN before
    ELSE formalizeWrapLoop(o, idx + 1, i + 1, IF i < 2 THEN o[idx][2] ELSE before)

formalizeWrap(wrap) ==
    IF (wrap.t = "string" /\ Len(wrap.v) > 0) \/ wrap.t = "number"
    THEN WrapPair(wrap, wrap)
    ELSE IF wrap.t = "array" /\ Len(wrap.v) > 0
    THEN WrapPair(Str(wrap.v[1]), IF Len(wrap.v) > 1 THEN Str(wrap.v[2]) ELSE Str(wrap.v[1]))
    ELSE IF wrap.t = "object"
    THEN LET before == formalizeWrapLoop(wrap.v, 1, 0, Str(<<>>))
         \* result.after is still '' here, so its length is < 1
         IN WrapPair(before, before)
    ELSE EmptyWrap

----------------------------------------------------------------------------
(* Annotation parser *)

TypeError == [t |-> "TypeError", v |-> 0]

\* last character of the run of word characters that starts at i
WordEnd(s, i) ==
    LET I == {j \in i..Len(s) : ~IsWord(s[j])}
    IN IF I = {} THEN Len(s) ELSE SetMin(I) - 1

\* the successive matches of /\w+:/ in s at or after from, as <<first, last>>
RECURSIVE KeySpans(_, _)
KeySpans(s, from) ==
    LET I == {i \in from..Len(s) : IsWord(s[i]) /\ At(s, WordEnd(s, i) + 1, <<":">>)}
    IN IF I = {} THEN <<>>
       ELSE LET a == SetMin(I)
                b == WordEnd(s, a) + 1
            IN <<<<a, b>>>> \o KeySpans(s, b + 1)

\* annotation.split(/\w+:/): the pieces of s between the matches
RECURSIVE SplitAtSpans(_, _, _)
SplitAtSpans(s, spans, from) ==
    IF spans = <<>> THEN <<Drop(s, from - 1)>>
    ELSE <<SubSeq(s, from, spans[1][1] - 1)>> \o SplitAtSpans(s, Tail(spans), spans[1][2] + 1)

\* length of the match of /<!--\s?|\s?-->|^\s+|\s+$/ at position p, 0 if none
CleanLen(s, p) ==
    IF At(s, p, <<"<","!","-","-">>) THEN (IF p + 4 <= Len(s) /\ IsSpace(s[p + 4]) THEN 5 ELSE 4)
    ELSE IF IsSpace(s[p]) /\ At(s, p + 1, <<"-","-",">">>) THEN 4
    ELSE IF At(s, p, <<"-","-",">">>) THEN 3
    ELSE IF p = 1 /\ IsSpace(s[1]) THEN LeadingSpace(s)
    ELSE IF IsSpace(s[p]) /\ SpaceEnd(s, p) = Len(s) + 1 THEN Len(s) - p + 1
    ELSE 0

\* item.replace(/<!--\s?|\s?-->|^\s+|\s+$/, ''): the leftmost match only
cleanValue(s) ==
    LET I == {p \in 1..Len(s) : CleanLen(s, p) > 0}
    IN IF I = {} THEN s
       ELSE LET p == SetMin(I)
            IN SubSeq(s, 1, p - 1) \o Drop(s, p + CleanLen(s, p) - 1)

\* optionValues.forEach: the i-th value goes to the i-th key, a value without
\* a key is skipped, a value with a colon becomes an array
RECURSIVE zipOptions(_, _, _, _)
zipOptions(optionValues, optionKeys, i, opts) ==
    IF i > Len(optionValues) THEN opts
    ELSE IF i > Len(optionKeys) THEN zipOptions(optionValues, optionKeys, i + 1, opts)
    ELSE LET v == optionValues[i]
             val == IF \E j \in 1..Len(v) : v[j] = ":" THEN Arr(Split(v, ":")) ELSE Str(v)
         IN zipOptions(optionValues, optionKeys, i + 1, Put(opts, optionKeys[i], val))

DefaultBlockDefaults == Obj(<< <<<<"v","i","e","w","W","r","a","p">>, EmptyWrap>> >>)

\* the keys of the inputs never shadow a method of Object.prototype
getBlockOptions(annotation, defaults) ==
    LET spans == KeySpans(annotation, 1)
        pieces == SplitAtSpans(annotation, spans, 1)
        optionValues == SelectSeq([i \in 1..Len(pieces) |-> cleanValue(pieces[i])],
                                  LAMBDA item : Len(item) > 0)
        \* item.replace(/[^\w]/, '') drops the colon that ends the match
        optionKeys == [i \in 1..Len(spans) |-> SubSeq(annotation, spans[i][1], spans[i][2] - 1)]
        dflt == IF Truthy(defaults) THEN defaults ELSE DefaultBlockDefaults
        opts == zipOptions(optionValues, optionKeys, 1, <<>>)
        wrap == IF Truthy(Get(opts, <<"w","r","a","p">>)) THEN Get(opts, <<"w","r","a","p">>) ELSE Get(dflt.v, <<"v","i","e","w","W","r","a","p">>)
    IN \* annotation.match(/(\w+):/g) is null when there is no key: null.map raises
       IF spans = <<>> THEN TypeError
       ELSE Obj(Put(opts, <<"w","r","a","p">>, formalizeWrap(wrap)))

----------------------------------------------------------------------------
(* Option serializer *)

DigitChars == <<"0","1","2","3","4","5","6","7","8","9">>

RECURSIVE Digits(_)
Digits(n) == IF n < 10 THEN <<DigitChars[n + 1]>>
             ELSE Digits(n \div 10) \o <<DigitChars[(n % 10) + 1]>>

EscapeChar(c) == CASE c = "\"" -> <<"\\","\"">>
                   [] c = "\\" -> <<"\\","\\">>
                   [] c = "\n" -> <<"\\","n">>
                   [] c = "\t" -> <<"\\","t">>
                   [] c = "\r" -> <<"\\","r">>
                   [] c = "\f" -> <<"\\","f">>
                   [] OTHER -> <<c>>

RECURSIVE Escape(_)
Escape(s) == IF s = <<>> THEN <<>> ELSE EscapeChar(Head(s)) \o Escape(Tail(s))

\* JSON.stringify of a string, a non-negative integer, an array of strings or
\* an object of such values
RECURSIVE JSONstringify(_)
JSONstringify(x) ==
    CASE x.t = "string" -> <<"\"">> \o Escape(x.v) \o <<"\"">>
      [] x.t = "number" -> IF x.v < 0 THEN <<"-">> \o Digits(0 - x.v) ELSE Digits(x.v)
      [] x.t = "array" ->
            <<"[">> \o Join([i \in 1..Len(x.v) |-> JSONstringify(Str(x.v[i]))], <<",">>) \o <<"]">>
      [] x.t = "object" ->
            <<"{">> \o Join([i \in 1..Len(x.v) |->
                            JSONstringify(Str(x.v[i][1])) \o <<":">> \o JSONstringify(x.v[i][2])],
                         <<",">>) \o <<"}">>

QuoteChars == {"'", "\""}

\* s.replace(/^['"]|['"]$/g, '')
StripQuotes(s) ==
    LET a == IF Len(s) > 0 /\ s[1] \in QuoteChars THEN Drop(s, 1) ELSE s
    IN IF Len(a) > 0 /\ a[Len(a)] \in QuoteChars THEN SubSeq(a, 1, Len(a) - 1) ELSE a

\* faulty variant: without the g flag, the first quote only
ReplaceQuotesOnce(s) ==
    LET I == {i \in 1..Len(s) : s[i] = "\""}
    IN IF I = {} THEN s
       ELSE LET q == SetMin(I)
                p == IF q > 1 /\ s[q - 1] = "\\" THEN q - 1 ELSE q
            IN SubSeq(s, 1, p - 1) \o <<"'">> \o Drop(s, q)

\* s.replace(/\\?"/g, "'")
RECURSIVE ReplaceQuotes(_)
ReplaceQuotes(s) ==
    IF s = <<>> THEN <<>>
    ELSE IF Len(s) > 1 /\ s[1] = "\\" /\ s[2] = "\"" THEN <<"'">> \o ReplaceQuotes(Drop(s, 2))
    ELSE IF s[1] = "\"" THEN <<"'">> \o ReplaceQuotes(Tail(s))
    ELSE <<s[1]>> \o ReplaceQuotes(Tail(s))

Remove(o, k) == SelectSeq(o, LAMBDA kv : kv[1] # k)

\* options is a plain object or not an object at all; its values are no functions
optionsToDataString(options) ==
    IF options.t # "object" THEN <<>>
    ELSE LET o == options.v
             processedOptions ==
                IF HasKey(o, <<"w","r","a","p">>)
                THEN Remove(Put(Put(o, <<"w","r","a","p","-","b","e","f","o","r","e">>, Get(Get(o, <<"w","r","a","p">>).v, <<"b","e","f","o","r","e">>)),
                                <<"w","r","a","p","-","a","f","t","e","r">>, Get(Get(o, <<"w","r","a","p">>).v, <<"a","f","t","e","r">>)),
                            <<"w","r","a","p">>)
                ELSE o
             prepared == [i \in 1..Len(processedOptions) |->
                            <<"d","a","t","a","-">> \o processedOptions[i][1] \o <<"=","\"">>
                            \o ReplaceQuotes(StripQuotes(JSONstringify(processedOptions[i][2])))
                            \o <<"\"">>]
         IN Join(prepared, <<" ">>)

----------------------------------------------------------------------------
(* Block processor *)

Null == [t |-> "null", v |-> 0]

getDefaultOptions ==
    LET files == Obj(<< <<<<"f","i","l","e","s">>, Arr(<<>>)>>, <<<<"i","n","l","i","n","e">>, Arr(<<>>)>> >>)
        resources == Obj(<< <<<<"c","l","a","s","s","n","a","m","e","s">>, Obj(<< <<<<"r","o","o","t">>, Str(<<>>)>>, <<<<"b","o","d","y">>, Str(<<>>)>> >>)>>,
                            <<<<"m","e","t","a">>, Arr(<<>>)>>,
                            <<<<"s","c","r","i","p","t","s","F","o","o","t">>, files>>,
                            <<<<"s","c","r","i","p","t","s","H","e","a","d">>, files>>,
                            <<<<"s","t","y","l","e","s","H","e","a","d">>, files>> >>)
    IN << <<<<"i","n","d","e","n","t">>, Str(<<" "," "," "," ">>)>>,
          <<<<"o","r","i","g","i","n">>, Str(<<>>)>>,
          <<<<"r","e","s","o","u","r","c","e","s">>, resources>>,
          <<<<"t","e","m","p","l","a","t","e","W","r","a","p">>, EmptyWrap>>,
          <<<<"v","i","e","w","W","r","a","p">>, EmptyWrap>> >>

\* \s* then the lazy group of (.|\n) up to the first `-->` at or after q;
\* `.` does not match a carriage return
Group1From(src, q) ==
    LET g == SpaceEnd(src, q)
        e == IndexOf(src, <<"-","-",">">>, g)
    IN IF e = 0 \/ (\E i \in g..(e - 1) : src[i] = "\r") THEN Null
       ELSE Str(SubSeq(src, g, e - 1))

PartsAt(src, p) ==
    IF At(src, p, <<"<","!","-","-">>) /\ Group1From(src, p + 4) # Null
    THEN Group1From(src, p + 4)
    ELSE Group1From(src, p)

\* parts[1] of src.match(/(?:<!--)?\s*((?:.|\n)*?)-->((?:.|\n)*?)/i), Null when
\* the text does not match
RECURSIVE matchPartsFrom(_, _)
matchPartsFrom(src, p) ==
    IF p > Len(src) + 1 THEN Null
    ELSE IF PartsAt(src, p) # Null THEN PartsAt(src, p)
    ELSE matchPartsFrom(src, p + 1)

matchParts(src) == matchPartsFrom(src, 1)

\* last character of the match of /<!--([\s\n]+)?(extract|endextract)(.|\n)*?-->/i
\* that starts at p, 0 if there is none
CommentEnd(src, p) ==
    IF ~At(src, p, <<"<","!","-","-">>) THEN 0
    ELSE LET g == SpaceEnd(src, p + 4)
             k == IF AtNoCase(src, g, <<"e","x","t","r","a","c","t">>) THEN g + 7
                  ELSE IF AtNoCase(src, g, <<"e","n","d","e","x","t","r","a","c","t">>) THEN g + 10
                  ELSE 0
             e == IF k = 0 THEN 0 ELSE IndexOf(src, <<"-","-",">">>, k)
         IN IF e = 0 \/ (\E i \in k..(e - 1) : src[i] = "\r") THEN 0 ELSE e + 2

\* src.replace(/<!--([\s\n]+)?(extract|endextract)(.|\n)*?-->/gi, '')
RECURSIVE removeComments(_, _)
removeComments(src, p) ==
    IF p > Len(src) THEN <<>>
    ELSE IF CommentEnd(src, p) > 0 THEN removeComments(src, CommentEnd(src, p) + 1)
    ELSE <<src[p]>> \o removeComments(src, p + 1)

\* _.trimEnd(_.trimStart(src.replace(...), '\n\r'))
contentOf(src) == trimEnd(trimStart(removeComments(src, 1), {"\n", "\r"}))

\* opts = Object.assign({}, getDefaultOptions(), opts)
mergeOptions(o) == IF o.t = "object" THEN Assign(getDefaultOptions, o.v) ELSE getDefaultOptions

\* content.split('\n').map(trimEnd).map(properIndentation)
bodyLines(content, indent) ==
    LET raw == Split(content, "\n")
        ind == IF Truthy(indent) THEN indent.v ELSE <<>>
    IN [i \in 1..Len(raw) |-> properIndentation(trimEnd(raw[i]), ind)]

cropOf(lines) ==
    LET leadingWhitespace == [i \in 1..Len(lines) |-> countWhitespace(lines[i])]
    IN reduceLeadingWhitespace(Head(leadingWhitespace), Tail(leadingWhitespace))

\* faulty variant: no blank line between the wrap and the lines
viewLinesOfNoBlank(lines, viewWrap) ==
    LET before == Get(viewWrap.v, <<"b","e","f","o","r","e">>)
        after == Get(viewWrap.v, <<"a","f","t","e","r">>)
    IN IF before.t = "string" /\ Len(before.v) > 0
       THEN <<before.v>> \o raiseIndent(lines, Undefined) \o <<after.v>>
       ELSE lines

\* wrap partial if inline option viewWrap: exists
viewLinesOf(lines, viewWrap) ==
    LET before == Get(viewWrap.v, <<"b","e","f","o","r","e">>)
        after == Get(viewWrap.v, <<"a","f","t","e","r">>)
    IN IF before.t = "string" /\ Len(before.v) > 0
       THEN <<before.v>> \o <<<<>>>> \o raiseIndent(lines, Undefined) \o <<<<>>>> \o <<after.v>>
       ELSE lines

\* add templateWrap; before and after are strings in the model
templateLinesOf(lines, templateWrap, templateWrapOptions) ==
    IF templateWrap.t = "object"
    THEN LET b == Get(templateWrap.v, <<"b","e","f","o","r","e">>)
             a == Get(templateWrap.v, <<"a","f","t","e","r">>)
             before == ReplaceFirst(IF Truthy(b) THEN b.v ELSE <<>>, <<"{","{","w","r","a","p","D","a","t","a","}","}">>, templateWrapOptions)
             after == ReplaceFirst(IF Truthy(a) THEN a.v ELSE <<>>, <<"{","{","w","r","a","p","D","a","t","a","}","}">>, templateWrapOptions)
         IN <<before>> \o lines \o <<after>>
    ELSE lines

\* label from name property and fallback to extract value
nameOf(blockOpts) ==
    IF HasKey(blockOpts.v, <<"n","a","m","e">>) THEN Get(blockOpts.v, <<"n","a","m","e">>) ELSE Get(blockOpts.v, <<"e","x","t","r","a","c","t">>)

\* faulty variant: the category of the entry is not kept
categoryOfNoCarry(self, blockOpts) ==
    IF HasKey(blockOpts.v, <<"c","a","t","e","g","o","r","y">>) THEN Get(blockOpts.v, <<"c","a","t","e","g","o","r","y">>)
    ELSE Str(<<"N","o"," ","c","a","t","e","g","o","r","y">>)

\* set category name
categoryOf(self, blockOpts) ==
    IF HasKey(blockOpts.v, <<"c","a","t","e","g","o","r","y">>) THEN Get(blockOpts.v, <<"c","a","t","e","g","o","r","y">>) ELSE self.category

\* set group
groupOf(self, blockOpts) ==
    IF HasKey(blockOpts.v, <<"g","r","o","u","p">>) THEN Get(blockOpts.v, <<"g","r","o","u","p">>) ELSE self.group

\* process source code: the lines of the content, cropped
linesOf(content, indent) ==
    LET lines == bodyLines(content, indent)
    IN trimLines(lines, cropOf(lines))

\* faulty variant: the hash of the raw text, whitespace included
idOfRaw(src) == createId(src)

\* remove all whitespace chars before creating the hash
idOf(src) == createId(StripWhitespace(src))

viewIdOf(view) == createId(StripWhitespace(view))

\* the values parseData computes before it sets any property (lines 292-334)
parseValues(self, src, opts, blockOpts) ==
    LET lines == linesOf(contentOf(src), Get(opts, <<"i","n","d","e","n","t">>))
        templateWrapOptions == optionsToDataString(blockOpts)
    IN [category |-> categoryOf(self, blockOpts),
        group |-> groupOf(self, blockOpts),
        lines |-> lines,
        name |-> nameOf(blockOpts),
        options |-> blockOpts,
        optionsData |-> templateWrapOptions,
        templateLines |-> templateLinesOf(lines, Get(opts, <<"t","e","m","p","l","a","t","e","W","r","a","p">>), templateWrapOptions),
        viewLines |-> viewLinesOf(lines, Get(blockOpts.v, <<"w","r","a","p">>))]

\* faulty variant: the origin option is stored too
setPropertiesAndOrigin(self, src, opts, d) ==
    [self EXCEPT !.category = d.category,
                 !.group = d.group,
                 !.id = idOf(src),
                 !.lines = Arr(d.lines),
                 !.name = d.name,
                 !.options = d.options,
                 !.optionsData = Str(d.optionsData),
                 !.origin = Get(opts, <<"o","r","i","g","i","n">>),
                 !.partial = Str(Join(d.lines, EOL)),
                 !.resources = Get(opts, <<"r","e","s","o","u","r","c","e","s">>),
                 !.template = Str(Join(d.templateLines, EOL)),
                 !.view = Str(Join(d.viewLines, EOL)),
                 !.viewId = viewIdOf(Join(d.viewLines, EOL))]

\* set properties (lines 336-349)
setProperties(self, src, opts, d) ==
    [self EXCEPT !.category = d.category,
                 !.group = d.group,
                 !.id = idOf(src),
                 !.lines = Arr(d.lines),
                 !.name = d.name,
                 !.options = d.options,
                 !.optionsData = Str(d.optionsData),
                 !.partial = Str(Join(d.lines, EOL)),
                 !.resources = Get(opts, <<"r","e","s","o","u","r","c","e","s">>),
                 !.template = Str(Join(d.templateLines, EOL)),
                 !.view = Str(Join(d.viewLines, EOL)),
                 !.viewId = viewIdOf(Join(d.viewLines, EOL))]

\* faulty variant: the id is set before the `extract` option is looked for
skipBlockSetsId(self, src, opts, blockOpts) == [self EXCEPT !.id = idOf(src)]

\* the entry as parseData leaves it when the block has no `extract` option
skipBlock(self, src, opts, blockOpts) == self

\* parseData(src, opts) on entry self: the outcome of the call and the entry
\* after it.  parts[1] of a text that does not match raises, and so does
\* getBlockOptions for an annotation without a key.
parseData(self, src, o) ==
    LET opts == mergeOptions(o)
        parts1 == matchParts(src)
        blockOpts == IF parts1 = Null THEN TypeError ELSE getBlockOptions(parts1.v, Obj(opts))
    IN IF blockOpts = TypeError THEN [outcome |-> "TypeError", this |-> self]
       ELSE IF ~HasKey(blockOpts.v, <<"e","x","t","r","a","c","t">>)
       THEN [outcome |-> "skip", this |-> skipBlock(self, src, opts, blockOpts)]
       ELSE [outcome |-> "commit",
             this |-> setProperties(self, src, opts, parseValues(self, src, opts, blockOpts))]

----------------------------------------------------------------------------
(* Entry: constructor and mutator *)

FieldOr(data, k, dflt) == IF data.t = "object" /\ HasKey(data.v, k) THEN Get(data.v, k) ELSE dflt

InventoryObject(data) ==
    [category |-> FieldOr(data, <<"c","a","t","e","g","o","r","y">>, Str(<<"N","o"," ","c","a","t","e","g","o","r","y">>)),
     id |-> FieldOr(data, <<"i","d">>, Str(<<>>)),
     group |-> FieldOr(data, <<"g","r","o","u","p">>, Str(<<>>)),
     lines |-> FieldOr(data, <<"l","i","n","e","s">>, Num(0)),
     name |-> FieldOr(data, <<"n","a","m","e">>, Str(<<>>)),
     options |-> FieldOr(data, <<"o","p","t","i","o","n","s">>, Obj(<<>>)),
     optionsData |-> FieldOr(data, <<"o","p","t","i","o","n","s","D","a","t","a">>, Str(<<>>)),
     origin |-> FieldOr(data, <<"o","r","i","g","i","n">>, Str(<<>>)),
     partial |-> FieldOr(data, <<"p","a","r","t","i","a","l">>, Str(<<>>)),
     resources |-> FieldOr(data, <<"r","e","s","o","u","r","c","e","s">>, Get(getDefaultOptions, <<"r","e","s","o","u","r","c","e","s">>)),
     template |-> FieldOr(data, <<"t","e","m","p","l","a","t","e">>, Str(<<>>)),
     usage |-> FieldOr(data, <<"u","s","a","g","e">>, Arr(<<>>)),
     view |-> FieldOr(data, <<"v","i","e","w">>, Str(<<>>)),
     viewId |-> FieldOr(data, <<"v","i","e","w","I","d">>, Str(<<>>))]

\* this[prop] = value: the field is created when it does not exist
AssignField(self, k, val) == [f \in DOMAIN self \cup {k} |-> IF f = k THEN val ELSE self[f]]

\* faulty variant: the property need not exist
setPropertyUnguarded(self, prop, value) ==
    IF prop.t # "string"
    THEN [ret |-> "false", this |-> self]
    ELSE [ret |-> "true", this |-> AssignField(self, prop.v, value)]

\* prop is a string (its payload the property name) or a number
setProperty(self, prop, value) ==
    IF prop.t # "string" \/ prop.v \notin DOMAIN self
    THEN [ret |-> "false", this |-> self]
    ELSE [ret |-> "true", this |-> AssignField(self, prop.v, value)]

----------------------------------------------------------------------------
(* Inputs *)

MaxCalls == 2
MaxEntries == 3

Block(annotation, body) == <<"<","!","-","-">> \o annotation \o <<"-","-",">">> \o body \o <<"<","!","-","-"," ","e","n","d","e","x","t","r","a","c","t"," ","-","-",">">>

Body1 == <<"\n"," "," ","<","p",">","\n"," "," "," "," ","x","\n"," "," ","<","/","p",">","\n">>
Body2 == <<"\n","\t","<","p",">","\n","\n","\t","\t","x","\n">>
Body3 == <<"\n">>

\* raw blocks for the entry: committed, skipped and raising
Sources == {Block(<<" ","e","x","t","r","a","c","t",":","a"," ">>, Body1),
            Block(<<"e","x","t","r","a","c","t",":","a">>, Body2),
            Block(<<" ","e","x"," ","t","r","a","c","t",":","a"," ">>, Body1),
            Block(<<" ","e","x","t","r","a","c","t",":","b"," ","n","a","m","e",":","F"," ","c","a","t","e","g","o","r","y",":","C"," ","g","r","o","u","p",":","G"," ">>, Body1),
            Block(<<" ","e","x","t","r","a","c","t",":","a"," ","c","a","t","e","g","o","r","y",":","D"," ">>, Body3),
            Block(<<" ","e","x","t","r","a","c","t",":","a"," ","w","r","a","p",":","<","d",">",":","<","/","d",">"," ">>, Body1),
            Block(<<" ","n","a","m","e",":","N"," ","e","x","t","r","a","c","t",":","a"," ">>, Body2),
            Block(<<" ","n","a","m","e",":","F"," ">>, Body1),
            Block(<<" ","h","e","l","l","o"," ">>, Body1),
            <<"<","p",">">>,
            <<"<","!","-","-"," ","e","x","t","r","a","c","t",":","c"," ","-","-",">","\n"," ","<","b",">">>}

\* raw blocks for the comparison of two blocks: the same annotations and
\* bodies with their whitespace varied
PairSources == Sources \cup {Block(<<"e","x","t","r","a","c","t",":","a">>, Body1),
                             Block(<<" ","e","x","t","r","a","c","t",":","a"," ">>, <<"\n","<","p",">","\n"," ","x","\n","<","/","p",">">>),
                             Block(<<" ","e","x","t","r","a","c","t",":","a">>, <<"<","p",">","x","<","/","p",">">>)}

OptionRecords ==
    {Undefined,
     Obj(<< <<<<"t","e","m","p","l","a","t","e","W","r","a","p">>, WrapPair(Str(<<"<","t"," ","{","{","w","r","a","p","D","a","t","a","}","}",">">>), Str(<<"<","/","t",">">>))>>,
            <<<<"o","r","i","g","i","n">>, Str(<<"o">>)>> >>),
     Obj(<< <<<<"t","e","m","p","l","a","t","e","W","r","a","p">>, WrapPair(Str(<<"{","{","w","r","a","p","D","a","t","a","}","}","{","{","w","r","a","p","D","a","t","a","}","}">>), Str(<<>>))>>,
            <<<<"i","n","d","e","n","t">>, Str(<<" "," ">>)>>,
            <<<<"v","i","e","w","W","r","a","p">>, WrapPair(Str(<<"<","v",">">>), Str(<<"<","/","v",">">>))>> >>)}

ConstructorData ==
    {Undefined,
     Obj(<< <<<<"c","a","t","e","g","o","r","y">>, Str(<<"K">>)>>, <<<<"o","r","i","g","i","n">>, Str(<<"c">>)>>,
            <<<<"u","s","a","g","e">>, Arr(<<<<"u">>>>)>> >>)}

PropertyNames == {Str("category"), Str("doesNotExist"), Str("parseData"), Num(0)}
PropertyValues == {Str(<<"X">>)}

\* plain objects with up to MaxEntries entries
WrapValues == {Str(<<>>), Str(<<"x">>), Str(<<"y">>), Num(1)}
WrapKeys == <<<<"b","e","f","o","r","e">>, <<"a","f","t","e","r">>, <<"t","h","i","r","d">>, <<"f","o","u","r","t","h">>>>
WrapRecords ==
    UNION {{Obj([i \in 1..n |-> <<WrapKeys[i], f[i]>>]) : f \in [1..n -> WrapValues]} : n \in 0..MaxEntries}
WrapInputs ==
    WrapRecords \cup WrapValues \cup {Undefined}
    \cup {Arr(<<>>), Arr(<<<<"x">>>>), Arr(<<<<"x">>, <<"y">>>>), Arr(<<<<"x">>, <<"y">>, <<"z">>>>)}

\* annotations `k1:v1 k2:v2 ... kn:vn` with up to MaxOptions distinct keys,
\* written as the text before the first key and the <<key, value>> pairs
MaxOptions == 3
OptionKeys == {<<"e","x","t","r","a","c","t">>, <<"n","a","m","e">>, <<"c","a","t","e","g","o","r","y">>}
OptionValues == {<<>>, <<"a">>, <<" ","b">>, <<"<","d",">",":","<","/","d",">">>}
TextBefore == {<<>>, <<" ">>, <<"f","o","o"," ">>}
OptionLists ==
    UNION {{f \in [1..n -> OptionKeys \X OptionValues] :
              \A i, j \in 1..n : i # j => f[i][1] # f[j][1]} : n \in 1..MaxOptions}
Annotations == [before : TextBefore, options : OptionLists]
AnnotationText(a) ==
    a.before \o Join([i \in 1..Len(a.options) |-> a.options[i][1] \o <<":">> \o a.options[i][2]], <<" ">>)

\* option maps with up to MaxSerialized entries that are strings, numbers or
\* sequences of strings, and an optional wrap pair
MaxSerialized == 2
SerializedKeys == <<<<"e","x","t","r","a","c","t">>, <<"n","a","m","e">>, <<"g","r","o","u","p">>, <<"c","a","t","e","g","o","r","y">>>>
SerializedValues ==
    {Str(<<>>), Str(<<"x"," ","y">>), Str(<<"\"">>), Str(<<"a","\"","b">>), Str(<<"\\","\"">>), Str(<<"i","t","'","s">>), Str(<<"a","\\">>),
     Num(0), Num(12), Arr(<<>>), Arr(<<<<"a">>, <<"\"","b","\"">>>>)}
SerializedWraps == {EmptyWrap, WrapPair(Str(<<"<","d"," ","c","l","a","s","s","=","\"","x","\"",">">>), Str(<<"<","/","d",">">>))}
SerializedEntries ==
    UNION {{[i \in 1..n |-> <<SerializedKeys[i], f[i]>>] : f \in [1..n -> SerializedValues]} :
             n \in 0..MaxSerialized}
OptionMaps ==
    {Obj(e) : e \in SerializedEntries}
    \cup {Obj(Append(e, <<<<"w","r","a","p">>, w>>)) : e \in SerializedEntries, w \in SerializedWraps}

----------------------------------------------------------------------------
(* State machine *)

NoCall == [op |-> "new", src |-> <<>>, opts |-> Undefined, prop |-> Undefined, value |-> Undefined]
NoCommit == [any |-> FALSE, src |-> <<>>, opts |-> Undefined]
NotRun == [outcome |-> "none", this |-> InventoryObject(Undefined)]

NoAnnotation == [before |-> <<>>, options |-> <<>>]

\* no call of getBlockOptions, none of optionsToDataString
IdleOptions == optIn = NoAnnotation /\ optOut = Null
IdleSerializer == serIn = Undefined /\ serOut = Null

InitEntry ==
    /\ this \in {InventoryObject(data) : data \in ConstructorData}
    /\ born = this
    /\ pre = this
    /\ call = NoCall
    /\ ret = "new"
    /\ calls = 0
    /\ lastCommit = NoCommit
    /\ lastCategory = Undefined
    /\ lastGroup = Undefined

Init ==
    /\ InitEntry
    /\ wrapIn = Undefined
    /\ wrapOut = Null
    /\ pairIn = [a |-> <<>>, b |-> <<>>, opts |-> Undefined]
    /\ pairOut = [a |-> NotRun, b |-> NotRun]
    /\ IdleOptions
    /\ IdleSerializer

\* entry.parseData(src, opts)
ParseData ==
    /\ calls < MaxCalls
    /\ calls' = calls + 1
    /\ \E src \in Sources, o \in OptionRecords :
         \E r \in {parseData(this, src, o)} :
            /\ this' = r.this
            /\ pre' = this
            /\ call' = [op |-> "parseData", src |-> src, opts |-> o,
                        prop |-> Undefined, value |-> Undefined]
            /\ ret' = r.outcome
            /\ lastCommit' = IF r.outcome = "commit" THEN [any |-> TRUE, src |-> src, opts |-> o]
                             ELSE lastCommit
            /\ lastCategory' = IF r.outcome = "commit" /\ HasKey(r.this.options.v, <<"c","a","t","e","g","o","r","y">>)
                               THEN Get(r.this.options.v, <<"c","a","t","e","g","o","r","y">>) ELSE lastCategory
            /\ lastGroup' = IF r.outcome = "commit" /\ HasKey(r.this.options.v, <<"g","r","o","u","p">>)
                            THEN Get(r.this.options.v, <<"g","r","o","u","p">>) ELSE lastGroup
    /\ UNCHANGED <<born, wrapVars, pairVars, optVars, serVars>>

\* entry.setProperty(prop, value)
SetProperty ==
    /\ calls < MaxCalls
    /\ calls' = calls + 1
    /\ \E prop \in PropertyNames, value \in PropertyValues :
         \E r \in {setProperty(this, prop, value)} :
            /\ this' = r.this
            /\ pre' = this
            /\ call' = [op |-> "setProperty", src |-> <<>>, opts |-> Undefined,
                        prop |-> prop, value |-> value]
            /\ ret' = r.ret
    /\ UNCHANGED <<born, lastCommit, lastCategory, lastGroup, wrapVars, pairVars, optVars, serVars>>

Next == ParseData \/ SetProperty

Spec == Init /\ [][Next]_vars

\* parseData calls only
NextParse == ParseData

SpecParse == Init /\ [][NextParse]_vars

\* formalizeWrap as a function of its argument
InitWrap ==
    /\ InitEntry
    /\ wrapIn \in WrapInputs
    /\ wrapOut = Null
    /\ pairIn = [a |-> <<>>, b |-> <<>>, opts |-> Undefined]
    /\ pairOut = [a |-> NotRun, b |-> NotRun]
    /\ IdleOptions
    /\ IdleSerializer

FormalizeWrap ==
    /\ wrapOut = Null
    /\ wrapOut' = formalizeWrap(wrapIn)
    /\ UNCHANGED <<entryVars, wrapIn, pairVars, optVars, serVars>>

NextWrap == FormalizeWrap

SpecWrap == InitWrap /\ [][NextWrap]_vars

\* parseData on two fresh entries, one raw block each, same options
InitPair ==
    /\ InitEntry
    /\ wrapIn = Undefined
    /\ wrapOut = Null
    /\ pairIn \in [a : PairSources, b : PairSources, opts : OptionRecords]
    /\ pairOut = [a |-> NotRun, b |-> NotRun]
    /\ IdleOptions
    /\ IdleSerializer

ParsePair ==
    /\ pairOut.a.outcome = "none"
    /\ pairOut' = [a |-> parseData(InventoryObject(Undefined), pairIn.a, pairIn.opts),
                   b |-> parseData(InventoryObject(Undefined), pairIn.b, pairIn.opts)]
    /\ UNCHANGED <<entryVars, wrapVars, pairIn, optVars, serVars>>

NextPair == ParsePair

SpecPair == InitPair /\ [][NextPair]_vars

\* getBlockOptions as a function of the annotation
InitOptions ==
    /\ InitEntry
    /\ wrapIn = Undefined
    /\ wrapOut = Null
    /\ pairIn = [a |-> <<>>, b |-> <<>>, opts |-> Undefined]
    /\ pairOut = [a |-> NotRun, b |-> NotRun]
    /\ optIn \in Annotations
    /\ optOut = Null
    /\ IdleSerializer

GetBlockOptions ==
    /\ optIn # NoAnnotation
    /\ optOut = Null
    /\ optOut' = getBlockOptions(AnnotationText(optIn), Undefined)
    /\ UNCHANGED <<entryVars, wrapVars, pairVars, optIn, serVars>>

NextOptions == GetBlockOptions

SpecOptions == InitOptions /\ [][NextOptions]_vars

\* optionsToDataString as a function of the option map
InitSerializer ==
    /\ InitEntry
    /\ wrapIn = Undefined
    /\ wrapOut = Null
    /\ pairIn = [a |-> <<>>, b |-> <<>>, opts |-> Undefined]
    /\ pairOut = [a |-> NotRun, b |-> NotRun]
    /\ IdleOptions
    /\ serIn \in OptionMaps
    /\ serOut = Null

OptionsToDataString ==
    /\ serIn # Undefined
    /\ serOut = Null
    /\ serOut' = Str(optionsToDataString(serIn))
    /\ UNCHANGED <<entryVars, wrapVars, pairVars, optVars, serIn>>

NextSerializer == OptionsToDataString

SpecSerializer == InitSerializer /\ [][NextSerializer]_vars

----------------------------------------------------------------------------
(* Properties *)

\* the latest call was parseData and it set the properties of the entry
Committed == call.op = "parseData" /\ ret = "commit"

\* the `key:` tokens of the annotation of a raw block
AnnotationKeys(src) ==
    LET annotation == matchParts(src).v
        spans == KeySpans(annotation, 1)
    IN {SubSeq(annotation, spans[i][1], spans[i][2] - 1) : i \in 1..Len(spans)}

\* C1: parseData on a raw block whose annotation has no `extract` key returns
\* normally and leaves every field of the entry as it was.
C1_NoExtractIsSkipped ==
    (call.op = "parseData" /\ matchParts(call.src) # Null
        /\ <<"e","x","t","r","a","c","t">> \notin AnnotationKeys(call.src))
    => (ret = "skip" /\ this = pre)

\* the resolved wrap pair of the processed block
WrapBefore == Get(Get(this.options.v, <<"w","r","a","p">>).v, <<"b","e","f","o","r","e">>)
WrapAfter == Get(Get(this.options.v, <<"w","r","a","p">>).v, <<"a","f","t","e","r">>)
IndentedLines == [i \in 1..Len(this.lines.v) |-> <<" "," "," "," ">> \o this.lines.v[i]]
Wrapped == Committed /\ WrapBefore.t = "string" /\ Len(WrapBefore.v) > 0

\* C2 as stated: the view of a wrapped block is a blank line, before, a blank
\* line, the lines indented by four spaces, a blank line, after.
C2_ViewStartsWithBlankLine ==
    Wrapped => this.view = Str(Join(<<<<>>, WrapBefore.v, <<>>>> \o IndentedLines
                                    \o <<<<>>, WrapAfter.v>>, EOL))

\* C2 amended: the view of a wrapped block is before, a blank line, the lines
\* indented by four spaces, a blank line, after; no blank line comes first.
C2_ViewOfWrappedBlock ==
    Wrapped => this.view = Str(Join(<<WrapBefore.v, <<>>>> \o IndentedLines
                                    \o <<<<>>, WrapAfter.v>>, EOL))

C2_Witness == Wrapped /\ Len(this.lines.v) > 1 /\ WrapAfter # WrapBefore

\* C3: for a plain record, formalizeWrap returns the value of the first entry
\* as before and the value of the second as after, the first when there is
\* no second.
C3_RecordFirstAndSecond ==
    (wrapOut # Null /\ wrapIn.t = "object" /\ Len(wrapIn.v) >= 1)
    => /\ Get(wrapOut.v, <<"b","e","f","o","r","e">>) = wrapIn.v[1][2]
       /\ Get(wrapOut.v, <<"a","f","t","e","r">>) = IF Len(wrapIn.v) >= 2 THEN wrapIn.v[2][2] ELSE wrapIn.v[1][2]

C3_Witness == wrapOut # Null /\ wrapIn.t = "object" /\ Len(wrapIn.v) >= 2

PairRan == pairOut.a.outcome # "none"
SameModuloWhitespace == StripWhitespace(pairIn.a) = StripWhitespace(pairIn.b)
BothProcessed == pairOut.a.outcome = "commit" /\ pairOut.b.outcome = "commit"

\* C4 as stated: two raw blocks that are equal once their whitespace is removed
\* leave two fresh entries with the same id.
C4_SameIdModuloWhitespace ==
    (PairRan /\ SameModuloWhitespace) => pairOut.a.this.id = pairOut.b.this.id

\* C4 amended: two raw blocks that are equal once their whitespace is removed
\* leave two fresh entries with the same id when parseData processes both; a
\* call that skips its block or raises leaves the id as it was.
C4_SameIdWhenBothProcessed ==
    /\ (PairRan /\ SameModuloWhitespace /\ BothProcessed)
          => pairOut.a.this.id = pairOut.b.this.id
    /\ (PairRan /\ pairOut.a.outcome # "commit")
          => pairOut.a.this.id = InventoryObject(Undefined).id

C4_Witness == PairRan /\ SameModuloWhitespace /\ BothProcessed /\ pairIn.a # pairIn.b

DeclaredFields == {"category", "id", "group", "lines", "name", "options", "optionsData",
                   "origin", "partial", "resources", "template", "usage", "view", "viewId"}

\* C5: setProperty returns true and sets exactly the named field when the name
\* is a string that names a declared field of the entry, and returns false and
\* changes nothing otherwise; the set of fields of the entry never grows.
C5_SetPropertyOnlyDeclaredFields ==
    /\ DOMAIN this = DeclaredFields
    /\ call.op = "setProperty" =>
          IF call.prop.t = "string" /\ call.prop.v \in DeclaredFields
          THEN /\ ret = "true"
               /\ this[call.prop.v] = call.value
               /\ \A f \in DeclaredFields \ {call.prop.v} : this[f] = pre[f]
          ELSE ret = "false" /\ this = pre

C5_Witness == call.op = "setProperty" /\ ret = "true" /\ this # pre /\ lastCommit.any

\* the options parsed from the block of the latest committing call
LastOpts == mergeOptions(lastCommit.opts)
LastBlockOpts == getBlockOptions(matchParts(lastCommit.src).v, Obj(LastOpts))

\* C6: lines, partial, view, template, id and viewId are those of the
\* constructor or all come from the block of the latest committing parseData
\* call; a skipped or raising call changes none of them.
C6_DerivedFieldsFromOneBlock ==
    IF ~lastCommit.any
    THEN \A f \in {"lines", "partial", "view", "template", "id", "viewId"} : this[f] = born[f]
    ELSE LET lines == linesOf(contentOf(lastCommit.src), Get(LastOpts, <<"i","n","d","e","n","t">>))
         IN /\ this.lines = Arr(lines)
            /\ this.partial = Str(Join(this.lines.v, EOL))
            /\ this.view = Str(Join(viewLinesOf(lines, Get(LastBlockOpts.v, <<"w","r","a","p">>)), EOL))
            /\ this.template = Str(Join(templateLinesOf(lines, Get(LastOpts, <<"t","e","m","p","l","a","t","e","W","r","a","p">>),
                                                        optionsToDataString(LastBlockOpts)), EOL))
            /\ this.id = createId(StripWhitespace(lastCommit.src))
            /\ this.viewId = createId(StripWhitespace(this.view.v))

C6_Witness == lastCommit.any /\ call.op = "parseData" /\ ret \in {"skip", "TypeError"}

\* s with every occurrence of pat replaced by repl
RECURSIVE ReplaceAll(_, _, _)
ReplaceAll(s, pat, repl) ==
    LET i == IndexOf(s, pat, 1)
    IN IF i = 0 THEN s
       ELSE SubSeq(s, 1, i - 1) \o repl \o ReplaceAll(Drop(s, i + Len(pat) - 1), pat, repl)

CallTemplateWrap == Get(mergeOptions(call.opts), <<"t","e","m","p","l","a","t","e","W","r","a","p">>)

\* C7: with a templateWrap record, template is the join of templateWrap.before,
\* the lines and templateWrap.after, every {{wrapData}} of before and after
\* replaced by optionsData.
C7_EveryPlaceholderReplaced ==
    (Committed /\ CallTemplateWrap.t = "object")
    => this.template =
          Str(Join(<<ReplaceAll(Get(CallTemplateWrap.v, <<"b","e","f","o","r","e">>).v, <<"{","{","w","r","a","p","D","a","t","a","}","}">>, this.optionsData.v)>>
                   \o this.lines.v
                   \o <<ReplaceAll(Get(CallTemplateWrap.v, <<"a","f","t","e","r">>).v, <<"{","{","w","r","a","p","D","a","t","a","}","}">>, this.optionsData.v)>>,
                   EOL))

\* C8: category is the category option of the latest processed block that had
\* one, else the category of the constructor; group likewise; name comes from
\* the latest processed block alone, its name option or else its extract
\* option.
C8_CategoryGroupKeptNameFresh ==
    /\ this.category = IF lastCategory = Undefined THEN born.category ELSE lastCategory
    /\ this.group = IF lastGroup = Undefined THEN born.group ELSE lastGroup
    /\ this.name = IF ~lastCommit.any THEN born.name
                   ELSE IF HasKey(LastBlockOpts.v, <<"n","a","m","e">>) THEN Get(LastBlockOpts.v, <<"n","a","m","e">>)
                   ELSE Get(LastBlockOpts.v, <<"e","x","t","r","a","c","t">>)

C8_Witness ==
    /\ Committed /\ calls = 2
    /\ lastCategory # Undefined /\ ~HasKey(this.options.v, <<"c","a","t","e","g","o","r","y">>)
    /\ this.name # pre.name

\* the lines of the body of the block of the latest call: right-trimmed, the
\* first tab replaced by the indent string
CallBody == bodyLines(contentOf(call.src), Get(mergeOptions(call.opts), <<"i","n","d","e","n","t">>))
NonEmpty(body) == {i \in 1..Len(body) : body[i] # <<>>}
MinWidth(body) == SetMin({LeadingSpace(body[i]) : i \in NonEmpty(body)})
Shorter(a, b) == IF a <= b THEN a ELSE b

C10_UsageAndOriginKept ==
    call.op = "parseData" => this.usage = pre.usage /\ this.origin = pre.origin

C10_Witness ==
    /\ Committed
    /\ Get(mergeOptions(call.opts), <<"o","r","i","g","i","n">>) = Str(<<"o">>)
    /\ this.origin # Str(<<"o">>)
    /\ this.usage # Arr(<<>>)

\* the value written for the i-th key of an annotation: trimmed, and split on
\* `:` when it holds one
OwnValue(a, i) ==
    LET v == trimStart(trimEnd(a.options[i][2]), Whitespace)
    IN IF \E j \in 1..Len(v) : v[j] = ":" THEN Arr(Split(v, ":")) ELSE Str(v)

OptionsParsed == optOut # Null /\ optOut.t = "object"

\* C11: every key of the annotation that is present in the option map returned
\* by getBlockOptions is bound to its own value (the text written after its
\* colon, trimmed, split on `:` when it holds a colon), never to the value of
\* another key or to the text before the first key; the map has no other key
\* than the annotation's keys and `wrap`
C11_KeyBoundToOwnValue ==
    OptionsParsed =>
        /\ \A i \in 1..Len(optIn.options) :
              HasKey(optOut.v, optIn.options[i][1])
                  => Get(optOut.v, optIn.options[i][1]) = OwnValue(optIn, i)
        /\ \A k \in 1..Len(optOut.v) :
              \/ optOut.v[k][1] = <<"w","r","a","p">>
              \/ \E i \in 1..Len(optIn.options) : optIn.options[i][1] = optOut.v[k][1]

Malformed == [ok |-> FALSE, attrs |-> <<>>]

\* reads s as space-separated attributes name="value", each value ending at
\* the first double quote behind its opening quote
RECURSIVE ReadAttributes(_)
ReadAttributes(s) ==
    IF s = <<>> THEN [ok |-> TRUE, attrs |-> <<>>]
    ELSE LET eq == IndexOf(s, <<"=","\"">>, 1)
             close == IF eq = 0 THEN 0 ELSE IndexOf(s, <<"\"">>, eq + 2)
         IN IF eq = 0 \/ close = 0 THEN Malformed
            ELSE LET attr == <<SubSeq(s, 1, eq - 1), SubSeq(s, eq + 2, close - 1)>>
                     rest == Drop(s, close)
                 IN IF rest = <<>> THEN [ok |-> TRUE, attrs |-> <<attr>>]
                    ELSE IF rest[1] # " " \/ Len(rest) = 1 THEN Malformed
                    ELSE LET r == ReadAttributes(Tail(rest))
                         IN [ok |-> r.ok, attrs |-> <<attr>> \o r.attrs]

\* the attribute names of an option map: data-<key> per entry, the wrap pair
\* as data-wrap-before and data-wrap-after behind the other entries
AttributeNames(o) ==
    LET plain == SelectSeq(Keys(o), LAMBDA k : k # <<"w","r","a","p">>)
        names == IF HasKey(o, <<"w","r","a","p">>) THEN plain \o <<<<"w","r","a","p","-","b","e","f","o","r","e">>, <<"w","r","a","p","-","a","f","t","e","r">>>> ELSE plain
    IN [i \in 1..Len(names) |-> <<"d","a","t","a","-">> \o names[i]]

Serialized == serOut # Null

\* C12: for an option map of strings, numbers, sequences of strings and a wrap
\* pair, the string returned by optionsToDataString is one token
\* data-<key>="<v>" per entry with no double quote inside any <v>: read as
\* double-quoted attributes it gives exactly the map's attribute names, and
\* its only double quotes are the two that delimit each value
C12_NoDoubleQuoteInValue ==
    Serialized =>
        LET r == ReadAttributes(serOut.v)
        IN /\ r.ok
           /\ [i \in 1..Len(r.attrs) |-> r.attrs[i][1]] = AttributeNames(serIn.v)
           /\ Len(SelectSeq(serOut.v, LAMBDA c : c = "\"")) = 2 * Len(AttributeNames(serIn.v))

\* a map with a wrap pair and a string value that holds a double quote has been
\* serialized, the quote written as a single quote
C12_Witness ==
    /\ Serialized
    /\ HasKey(serIn.v, <<"w","r","a","p">>)
    /\ \E i \in 1..Len(serIn.v) :
          /\ serIn.v[i][2].t = "string"
          /\ \E j \in 1..Len(serIn.v[i][2].v) : serIn.v[i][2].v[j] = "\""
    /\ \E j \in 1..Len(serOut.v) : serOut.v[j] = "'"
====
